---- MODULE Spec2Model ----
(***************************************************************************)
(* Model of src/main.py: the recommendation core _compute_recommendations  *)
(* and the /analyze handler analyze_media with its shared-secret check.    *)
(*                                                                         *)
(* Representation.                                                         *)
(*  - A Python str is a sequence of one-character strings, so that         *)
(*    lower(), strip() and startswith() act on characters.                 *)
(*  - An Optional value is None (the empty tuple) or Some(x) (a 1-tuple).   *)
(*  - image_urls is a list; only len() of it is read by the code.          *)
(*  - confidence is a float with two decimals; it is kept in hundredths    *)
(*    (0.70 -> 70, 0.78 -> 78, 0.85 -> 85).                                *)
(*  - Context.place_type, Context.service_type, AnalyzeRequest.mode and    *)
(*    AnalyzeRequest.video_url are never read by the code and are left out.*)
(***************************************************************************)
EXTENDS Integers, Sequences, FiniteSets, TLC

VARIABLES pc, req, rec, env_secret, header_secret, status, core_calls

vars == <<pc, req, rec, env_secret, header_secret, status, core_calls>>

(***************************************************************************)
(* Bounds of the explored inputs.                                          *)
(***************************************************************************)
MaxImages == 12
MaxFloor == 2
MaxNegFloor == 1

(***************************************************************************)
(* Python values.                                                          *)
(***************************************************************************)
None == <<>>

Some(x) == <<x>>

\* bool(x) for an Optional[int]: None and 0 are falsy.
Truthy(opt) == opt # None /\ opt[1] # 0

\* (x or d) where d is the falsy value of x's type ("" or 0).
OrElse(opt, d) == IF opt = None THEN d ELSE opt[1]

LowerChar(c) ==
    CASE c = "A" -> "a"
      [] c = "B" -> "b"
      [] c = "C" -> "c"
      [] c = "D" -> "d"
      [] c = "E" -> "e"
      [] c = "F" -> "f"
      [] c = "G" -> "g"
      [] c = "H" -> "h"
      [] c = "I" -> "i"
      [] c = "J" -> "j"
      [] c = "K" -> "k"
      [] c = "L" -> "l"
      [] c = "M" -> "m"
      [] c = "N" -> "n"
      [] c = "O" -> "o"
      [] c = "P" -> "p"
      [] c = "Q" -> "q"
      [] c = "R" -> "r"
      [] c = "S" -> "s"
      [] c = "T" -> "t"
      [] c = "U" -> "u"
      [] c = "V" -> "v"
      [] c = "W" -> "w"
      [] c = "X" -> "x"
      [] c = "Y" -> "y"
      [] c = "Z" -> "z"
      [] OTHER -> c

\* str.lower()
lower(s) == [i \in 1..Len(s) |-> LowerChar(s[i])]

\* str.startswith(p)
startswith(s, p) == Len(s) >= Len(p) /\ SubSeq(s, 1, Len(p)) = p

IsSpace(c) == c \in {" ", "\t"}

RECURSIVE lstrip(_)
lstrip(s) == IF s # <<>> /\ IsSpace(Head(s)) THEN lstrip(Tail(s)) ELSE s

RECURSIVE rstrip(_)
rstrip(s) ==
    IF s # <<>> /\ IsSpace(s[Len(s)]) THEN rstrip(SubSeq(s, 1, Len(s) - 1)) ELSE s

\* str.strip()
strip(s) == rstrip(lstrip(s))

max(a, b) == IF a >= b THEN a ELSE b

(***************************************************************************)
(* _compute_recommendations, stage by stage.                               *)
(***************************************************************************)
s3_ == <<"s", "3", "_">>

s4_ == <<"s", "4", "_">>

villa_250_350 == <<"v", "i", "l", "l", "a", "_", "2", "5", "0", "_", "3", "5", "0">>

villa_350_500 == <<"v", "i", "l", "l", "a", "_", "3", "5", "0", "_", "5", "0", "0">>

comm_150_250 == <<"c", "o", "m", "m", "_", "1", "5", "0", "_", "2", "5", "0">>

comm_100_150 == <<"c", "o", "m", "m", "_", "1", "0", "0", "_", "1", "5", "0">>

\* lines 50-59: four unconditional ifs, a later one overriding an earlier.
min_service(place_size) ==
    LET m0 == "light"
        m1 == IF startswith(place_size, s3_) \/ startswith(place_size, s4_)
              THEN "medium" ELSE m0
        m2 == IF startswith(place_size, villa_250_350) THEN "medium" ELSE m1
        m3 == IF startswith(place_size, villa_350_500)
                 \/ startswith(place_size, comm_150_250)
              THEN "heavy" ELSE m2
        m4 == IF startswith(place_size, comm_100_150) THEN "medium" ELSE m3
    IN  m4

\* suggest_level with the heavy-item rule raising the level to 2 instead of 3.
suggest_level_heavy_as_medium(add_heavy, has_elevator, floors_total, num_images) ==
    LET l0 == 1
        l1 == IF add_heavy THEN max(l0, 2) ELSE l0
        l2 == IF ~has_elevator /\ floors_total >= 3 THEN max(l1, 2) ELSE l1
        l3 == IF num_images >= 12 THEN max(l2, 3)
              ELSE IF num_images >= 6 THEN max(l2, 2)
              ELSE l2
    IN  l3

\* lines 61-76, the level.
suggest_level(add_heavy, has_elevator, floors_total, num_images) ==
    LET l0 == 1
        l1 == IF add_heavy THEN max(l0, 3) ELSE l0
        l2 == IF ~has_elevator /\ floors_total >= 3 THEN max(l1, 2) ELSE l1
        l3 == IF num_images >= 12 THEN max(l2, 3)
              ELSE IF num_images >= 6 THEN max(l2, 2)
              ELSE l2
    IN  l3

\* level_reasons with the image-volume rule evaluated before the floor rule.
level_reasons_images_first(add_heavy, has_elevator, floors_total, num_images) ==
    LET r0 == <<>>
        r1 == IF add_heavy THEN Append(r0, "vision_add_heavy_context") ELSE r0
        r2 == IF num_images >= 12 THEN Append(r1, "vision_many_images_high_volume")
              ELSE IF num_images >= 6 THEN Append(r1, "vision_medium_images_volume")
              ELSE r1
        r3 == IF ~has_elevator /\ floors_total >= 3
              THEN Append(r2, "vision_multi_floor_no_elevator") ELSE r2
    IN  r3

\* lines 61-76, the reasons appended while the level is computed.
level_reasons(add_heavy, has_elevator, floors_total, num_images) ==
    LET r0 == <<>>
        r1 == IF add_heavy THEN Append(r0, "vision_add_heavy_context") ELSE r0
        r2 == IF ~has_elevator /\ floors_total >= 3
              THEN Append(r1, "vision_multi_floor_no_elevator") ELSE r1
        r3 == IF num_images >= 12 THEN Append(r2, "vision_many_images_high_volume")
              ELSE IF num_images >= 6 THEN Append(r2, "vision_medium_images_volume")
              ELSE r2
    IN  r3

\* level_svc with the medium branch dropped.
level_svc_no_medium(level) == IF level >= 3 THEN "heavy" ELSE "light"

\* lines 78-82
level_svc(level) ==
    IF level >= 3 THEN "heavy" ELSE IF level >= 2 THEN "medium" ELSE "light"

order == [light |-> 0, medium |-> 1, heavy |-> 2]

\* order.get(k, 0)
order_get(k) == IF k \in DOMAIN order THEN order[k] ELSE 0

\* lines 85-87
below_minimum(svc, min) == order_get(svc) < order_get(min)

\* enforce_svc that never raises the tier.
enforce_svc_keep(svc, min) == svc

\* lines 85-86
enforce_svc(svc, min) == IF below_minimum(svc, min) THEN min ELSE svc

\* enforce_reasons that appends the override code whatever the tiers are.
enforce_reasons_always(reasons, svc, min) ==
    Append(reasons, "vision_place_size_minimum")

\* lines 85, 87
enforce_reasons(reasons, svc, min) ==
    IF below_minimum(svc, min) THEN Append(reasons, "vision_place_size_minimum")
    ELSE reasons

truck_map ==
       <<"s", "1", "_", "4", "0", "_", "6", "0">> :> <<"small", 2, 90>>
    @@ <<"s", "1", "_", "6", "0", "_", "8", "0">> :> <<"small", 2, 120>>
    @@ <<"s", "2", "_", "8", "0", "_", "1", "0", "0">> :> <<"medium", 3, 150>>
    @@ <<"s", "2", "_", "1", "0", "0", "_", "1", "2", "0">> :> <<"medium", 3, 180>>
    @@ <<"s", "3", "_", "1", "2", "0", "_", "1", "5", "0">> :> <<"large", 4, 240>>
    @@ <<"s", "3", "_", "1", "5", "0", "_", "1", "8", "0">> :> <<"large", 4, 300>>
    @@ <<"s", "4", "_", "1", "8", "0", "_", "2", "2", "0">> :> <<"xl", 4, 360>>
    @@ <<"s", "4", "_", "2", "2", "0", "_", "2", "6", "0">> :> <<"xl", 5, 420>>
    @@ <<"v", "i", "l", "l", "a", "_", "2", "5", "0", "_", "3", "5", "0">> :> <<"xl", 4, 420>>
    @@ <<"v", "i", "l", "l", "a", "_", "3", "5", "0", "_", "5", "0", "0">> :> <<"xxl", 5, 480>>
    @@ <<"c", "o", "m", "m", "_", "3", "0", "_", "6", "0">> :> <<"small", 2, 120>>
    @@ <<"c", "o", "m", "m", "_", "6", "0", "_", "1", "0", "0">> :> <<"medium", 3, 180>>
    @@ <<"c", "o", "m", "m", "_", "1", "0", "0", "_", "1", "5", "0">> :> <<"large", 4, 240>>
    @@ <<"c", "o", "m", "m", "_", "1", "5", "0", "_", "2", "5", "0">> :> <<"xl", 5, 360>>

\* truck_map_get with the first row's minutes as the default.
truck_map_get_default_90(place_size) ==
    IF place_size \in DOMAIN truck_map THEN truck_map[place_size]
    ELSE <<"small", 2, 90>>

\* truck_map.get(place_size, ("small", 2, 120))
truck_map_get(place_size) ==
    IF place_size \in DOMAIN truck_map THEN truck_map[place_size]
    ELSE <<"small", 2, 120>>

\* est_minutes with the penalty applied to any non-zero floors_total.
est_minutes_nonzero(base, has_elevator, floors_total) ==
    IF ~has_elevator /\ floors_total # 0 THEN base + floors_total * 20 ELSE base

\* lines 107-108
est_minutes(base, has_elevator, floors_total) ==
    IF ~has_elevator /\ floors_total > 0 THEN base + floors_total * 20 ELSE base

\* base_conf with strict comparisons at the thresholds.
base_conf_strict(num_images) ==
    IF num_images > 10 THEN 85 ELSE IF num_images > 5 THEN 78 ELSE 70

\* lines 110-114, in hundredths
base_conf(num_images) ==
    IF num_images >= 10 THEN 85 ELSE IF num_images >= 5 THEN 78 ELSE 70

\* rec_services without the next tier after medium.
rec_services_no_next(svc) ==
    IF svc = "light" THEN <<"light", "medium">>
    ELSE IF svc = "medium" THEN <<"medium">>
    ELSE <<"heavy">>

\* lines 116-122
rec_services(svc) ==
    IF svc = "light" THEN <<"light", "medium">>
    ELSE IF svc = "medium" THEN <<"medium", "heavy">>
    ELSE <<"heavy">>

\* lines 45-48 and 70: the normalised working values of a request.
norm_place_size(r) == lower(OrElse(r.context.place_size, <<>>))

norm_add_heavy(r) == Truthy(r.context.add_heavy)

norm_floors_total(r) ==
    OrElse(r.context.pickup_floor, 0) + OrElse(r.context.destination_floor, 0)

norm_has_elevator(r) == Truthy(r.context.has_elevator)

norm_num_images(r) == Len(r.image_urls)

compute_recommendations(r) ==
    LET place_size == norm_place_size(r)
        add_heavy == norm_add_heavy(r)
        floors_total == norm_floors_total(r)
        has_elevator == norm_has_elevator(r)
        num_images == norm_num_images(r)
        min == min_service(place_size)
        level == suggest_level(add_heavy, has_elevator, floors_total, num_images)
        reasons == level_reasons(add_heavy, has_elevator, floors_total, num_images)
        svc0 == level_svc(level)
        svc == enforce_svc(svc0, min)
        entry == truck_map_get(place_size)
    IN  [service_type |-> svc,
         truck_size |-> entry[1],
         workers |-> entry[2],
         estimated_minutes |-> est_minutes(entry[3], has_elevator, floors_total),
         reasons |-> enforce_reasons(reasons, svc0, min),
         confidence |-> base_conf(num_images),
         recommended_services |-> rec_services(svc)]

(***************************************************************************)
(* Inputs.                                                                 *)
(***************************************************************************)
\* place_size values sent by callers: the table's keys, keys in another
\* case, values that only share a prefix with a rule, unknown values, "".
PlaceSizeStrings ==
    DOMAIN truck_map \cup
    { <<"S", "3", "_", "1", "2", "0", "_", "1", "5", "0">>,
      <<"V", "i", "l", "l", "a", "_", "3", "5", "0", "_", "5", "0", "0">>,
      <<"s", "3", "_", "9", "9", "9">>,
      <<"s", "4">>,
      <<"c", "o", "m", "m", "_", "1", "5", "0", "_", "2", "5", "0", "_", "b">>,
      <<"u", "n", "k", "n", "o", "w", "n", "_", "c", "o", "d", "e">>,
      <<>> }

PlaceSizes == {None} \cup {Some(s) : s \in PlaceSizeStrings}

Floors == {None} \cup {Some(n) : n \in (0 - MaxNegFloor)..MaxFloor}

\* has_elevator and add_heavy are Optional[int]: absent, 0, 1, or another int.
Flags == {None, Some(0), Some(1)}

HeavyFlags == Flags \cup {Some(2)}

ImageLists == {[i \in 1..n |-> "url"] : n \in 0..MaxImages}

Contexts ==
    [place_size : PlaceSizes, pickup_floor : Floors, destination_floor : Floors,
     has_elevator : Flags, add_heavy : HeavyFlags]

Requests == [image_urls : ImageLists, context : Contexts]

\* Requests sent through the HTTP handler: the floor and elevator fields absent.
HandlerRequests ==
    {r \in Requests : /\ r.context.pickup_floor = None
                      /\ r.context.destination_floor = None
                      /\ r.context.has_elevator = None}

\* Values of the MCP_COLAB_API_SECRET environment variable (None: unset).
EnvSecrets ==
    {None, Some(<<>>), Some(<<" ">>), Some(<<"k">>), Some(<<" ", "k">>),
     Some(<<"j", "k">>)}

\* Values of the X-MCP-Secret header (None: header absent).
HeaderSecrets ==
    {None, Some(<<>>), Some(<<"k">>), Some(<<"k", " ">>), Some(<<"x">>)}

(***************************************************************************)
(* analyze_media                                                           *)
(***************************************************************************)
\* os.getenv("MCP_COLAB_API_SECRET", "").strip()
expected_secret(env) == strip(OrElse(env, <<>>))

\* request.headers.get("X-MCP-Secret", "").strip()
presented_secret(hdr) == strip(OrElse(hdr, <<>>))

\* secret_rejected that lets a request without the header through.
secret_rejected_absent_ok(env, hdr) ==
    /\ expected_secret(env) # <<>>
    /\ hdr # None
    /\ presented_secret(hdr) # expected_secret(env)

\* lines 138-140: the condition under which HTTPException(401) is raised.
secret_rejected(env, hdr) ==
    expected_secret(env) # <<>> /\ presented_secret(hdr) # expected_secret(env)

\* lines 137-141
CheckSecret ==
    /\ pc = "auth"
    /\ IF secret_rejected(env_secret, header_secret)
       THEN /\ status' = 401
            /\ pc' = "done"
       ELSE /\ status' = status
            /\ pc' = "core"
    /\ UNCHANGED <<req, rec, env_secret, header_secret, core_calls>>

\* lines 143-144: rec = _compute_recommendations(req); the response is built.
CallCore ==
    /\ pc = "core"
    /\ rec' = compute_recommendations(req)
    /\ core_calls' = core_calls + 1
    /\ status' = 200
    /\ pc' = "done"
    /\ UNCHANGED <<req, env_secret, header_secret>>

\* _compute_recommendations called on a request, no transport in front of it.
Init ==
    /\ pc = "core"
    /\ req \in Requests
    /\ rec = None
    /\ env_secret = None
    /\ header_secret = None
    /\ status = 0
    /\ core_calls = 0

Next == CallCore

Spec == Init /\ [][Next]_vars

\* A request arriving at POST /analyze.
InitHandler ==
    /\ pc = "auth"
    /\ req \in HandlerRequests
    /\ rec = None
    /\ env_secret \in EnvSecrets
    /\ header_secret \in HeaderSecrets
    /\ status = 0
    /\ core_calls = 0

NextHandler == CheckSecret \/ CallCore

SpecHandler == InitHandler /\ [][NextHandler]_vars

\* The working values of the request in hand.
place_size == norm_place_size(req)

add_heavy == norm_add_heavy(req)

floors_total == norm_floors_total(req)

has_elevator == norm_has_elevator(req)

num_images == norm_num_images(req)

Returned == pc = "done" /\ status = 200

TypeOK ==
    /\ pc \in {"auth", "core", "done"}
    /\ status \in {0, 200, 401}
    /\ core_calls \in {0, 1}
    /\ Returned => rec.service_type \in DOMAIN order

(***************************************************************************)
(* Vocabulary of the properties, stated from the request and the response. *)
(***************************************************************************)
Range(s) == {s[i] : i \in 1..Len(s)}

Ord(tier) == CASE tier = "light" -> 0 [] tier = "medium" -> 1 [] tier = "heavy" -> 2

\* The minimum tier of the prefix table.
TableMinTier ==
    IF startswith(place_size, s3_) \/ startswith(place_size, s4_) THEN "medium"
    ELSE IF startswith(place_size, villa_250_350) THEN "medium"
    ELSE IF startswith(place_size, villa_350_500) THEN "heavy"
    ELSE IF startswith(place_size, comm_150_250) THEN "heavy"
    ELSE IF startswith(place_size, comm_100_150) THEN "medium"
    ELSE "light"

\* The tier estimated from the signals, before the minimum is enforced.
EstimatedTier ==
    IF add_heavy \/ num_images >= 12 THEN "heavy"
    ELSE IF (~has_elevator /\ floors_total >= 3) \/ num_images >= 6 THEN "medium"
    ELSE "light"

Higher(a, b) == IF Ord(a) >= Ord(b) THEN a ELSE b

KnownSize == place_size \in DOMAIN truck_map

BaseMinutes == IF KnownSize THEN truck_map[place_size][3] ELSE 120

Penalty == IF ~has_elevator /\ floors_total > 0 THEN 20 * floors_total ELSE 0

MatchesNoPrefix ==
    \A p \in {s3_, s4_, villa_250_350, villa_350_500, comm_150_250, comm_100_150} :
        ~startswith(place_size, p)

unknown_code == <<"u", "n", "k", "n", "o", "w", "n", "_", "c", "o", "d", "e">>

\* C1: the returned service_type is never below the minimum tier that the
\* prefix table gives for place_size.
C1_NeverBelowMinimum ==
    Returned => Ord(rec.service_type) >= Ord(TableMinTier)

C1_Witness ==
    /\ Returned
    /\ TableMinTier = "heavy"
    /\ EstimatedTier = "light"
    /\ rec.service_type = "heavy"

\* C2: a truthy add_heavy gives service_type heavy and the reason
\* vision_add_heavy_context, whatever the other fields are.
C2_AddHeavyForcesHeavy ==
    (Returned /\ req.context.add_heavy \notin {None, Some(0)}) =>
        /\ rec.service_type = "heavy"
        /\ "vision_add_heavy_context" \in Range(rec.reasons)

C2_Witness ==
    /\ Returned
    /\ req.context.add_heavy = Some(2)
    /\ num_images = 0
    /\ TableMinTier = "light"
    /\ rec.service_type = "heavy"

\* C3 as stated: a place_size that is not a key of the logistics table gets
\* (small, 2, 120 + penalty), its minimum tier is light and no
\* vision_place_size_minimum override is applied.
C3_UnknownSizeDefaultsAndLightMinimum ==
    (Returned /\ ~KnownSize) =>
        /\ rec.truck_size = "small"
        /\ rec.workers = 2
        /\ rec.estimated_minutes = 120 + Penalty
        /\ rec.service_type = EstimatedTier
        /\ "vision_place_size_minimum" \notin Range(rec.reasons)

\* C3 amended: a place_size whose lower-cased value is not a key of the
\* logistics table gets (small, 2, 120 + penalty); its minimum tier is light,
\* with no vision_place_size_minimum override, when the value also starts
\* with none of the prefixes of the minimum-tier table.
C3_UnknownSizeDefaults ==
    (Returned /\ ~KnownSize) =>
        /\ rec.truck_size = "small"
        /\ rec.workers = 2
        /\ rec.estimated_minutes = 120 + Penalty
        /\ MatchesNoPrefix =>
              /\ rec.service_type = EstimatedTier
              /\ "vision_place_size_minimum" \notin Range(rec.reasons)

C3_Witness ==
    /\ Returned
    /\ place_size = unknown_code
    /\ ~has_elevator
    /\ floors_total = 3
    /\ rec.estimated_minutes = 180
    /\ rec.service_type = "medium"

\* C4 as stated: with a non-empty MCP_COLAB_API_SECRET and an X-MCP-Secret
\* header that differs from it, the request ends in 401 and the core is
\* never called.
C4_MismatchRejectedRaw ==
    (/\ env_secret # None
     /\ OrElse(env_secret, <<>>) # <<>>
     /\ OrElse(header_secret, <<>>) # OrElse(env_secret, <<>>)) =>
        /\ pc # "core"
        /\ core_calls = 0
        /\ pc = "done" => status = 401

\* C4 amended: with an MCP_COLAB_API_SECRET that is non-empty after
\* surrounding whitespace is stripped and an X-MCP-Secret header whose
\* stripped value differs from it (an absent header counting as empty), the
\* request ends in 401 and the core is never called.
C4_MismatchRejected ==
    (/\ strip(OrElse(env_secret, <<>>)) # <<>>
     /\ strip(OrElse(header_secret, <<>>)) # strip(OrElse(env_secret, <<>>))) =>
        /\ pc # "core"
        /\ core_calls = 0
        /\ pc = "done" => status = 401

C4_Witness ==
    /\ pc = "done"
    /\ status = 401
    /\ core_calls = 0
    /\ env_secret = Some(<<" ", "k">>)
    /\ header_secret = None

\* C5: estimated_minutes is the base minutes of place_size when has_elevator
\* is truthy, base + 20 * floors_total when it is falsy and floors_total > 0,
\* and for any floors, negative ones included, positive and at least the base.
C5_EstimatedMinutes ==
    Returned =>
        /\ has_elevator => rec.estimated_minutes = BaseMinutes
        /\ (~has_elevator /\ floors_total > 0) =>
              rec.estimated_minutes = BaseMinutes + 20 * floors_total
        /\ rec.estimated_minutes > 0
        /\ rec.estimated_minutes >= BaseMinutes

C5_Witness ==
    /\ Returned
    /\ ~has_elevator
    /\ floors_total < 0
    /\ KnownSize
    /\ rec.estimated_minutes = BaseMinutes

\* C6: recommended_services is the returned tier followed by the next higher
\* tier: one element exactly when the tier is heavy, two otherwise.
C6_RecommendedServices ==
    Returned =>
        /\ rec.recommended_services # <<>>
        /\ rec.recommended_services[1] = rec.service_type
        /\ Len(rec.recommended_services) = 1 <=> rec.service_type = "heavy"
        /\ Len(rec.recommended_services) \in {1, 2}
        /\ rec.service_type = "light" =>
              rec.recommended_services = <<"light", "medium">>
        /\ rec.service_type = "medium" =>
              rec.recommended_services = <<"medium", "heavy">>
        /\ rec.service_type = "heavy" => rec.recommended_services = <<"heavy">>

C6_Witness ==
    /\ Returned
    /\ rec.service_type = "medium"
    /\ rec.recommended_services = <<"medium", "heavy">>

ExpectedReasons ==
    (IF add_heavy THEN <<"vision_add_heavy_context">> ELSE <<>>)
    \o (IF ~has_elevator /\ floors_total >= 3
        THEN <<"vision_multi_floor_no_elevator">> ELSE <<>>)
    \o (IF num_images >= 12 THEN <<"vision_many_images_high_volume">>
        ELSE IF num_images >= 6 THEN <<"vision_medium_images_volume">>
        ELSE <<>>)
    \o (IF Ord(EstimatedTier) < Ord(TableMinTier)
        THEN <<"vision_place_size_minimum">> ELSE <<>>)

\* C7: reasons is exactly the codes of the rules that fired, in the order
\* heavy item, floors without elevator, image volume, place-size minimum.
C7_ReasonsInOrder ==
    Returned => rec.reasons = ExpectedReasons

C7_Witness ==
    /\ Returned
    /\ rec.reasons = <<"vision_multi_floor_no_elevator",
                       "vision_medium_images_volume",
                       "vision_place_size_minimum">>

ConfidenceBand(n) == IF n >= 10 THEN 85 ELSE IF n >= 5 THEN 78 ELSE 70

\* C8: confidence is 0.85 from 10 images, 0.78 from 5 to 9 and 0.70 below 5,
\* and no smaller image count has a higher confidence.
C8_ConfidenceBands ==
    Returned =>
        /\ rec.confidence = ConfidenceBand(num_images)
        /\ \A n \in 0..num_images : base_conf(n) <= rec.confidence

C8_Witness ==
    /\ Returned
    /\ num_images = 10
    /\ rec.confidence = 85

\* C9: service_type is the higher of the minimum tier and the estimated
\* tier, and is never below the estimated tier.
C9_HigherOfMinimumAndEstimate ==
    Returned =>
        /\ rec.service_type = Higher(TableMinTier, EstimatedTier)
        /\ Ord(rec.service_type) >= Ord(EstimatedTier)

C9_Witness ==
    /\ Returned
    /\ EstimatedTier = "medium"
    /\ TableMinTier = "light"
    /\ num_images < 6
    /\ rec.service_type = "medium"

\* C10: reasons has no duplicate and at most 3 entries; the place-size
\* override never comes with the heavy-item or many-images code, and the two
\* image-volume codes never come together.
C10_ReasonsBounded ==
    Returned =>
        /\ Cardinality(Range(rec.reasons)) = Len(rec.reasons)
        /\ Len(rec.reasons) <= 3
        /\ "vision_place_size_minimum" \in Range(rec.reasons) =>
              /\ "vision_add_heavy_context" \notin Range(rec.reasons)
              /\ "vision_many_images_high_volume" \notin Range(rec.reasons)
        /\ ~ /\ "vision_many_images_high_volume" \in Range(rec.reasons)
             /\ "vision_medium_images_volume" \in Range(rec.reasons)

C10_Witness ==
    /\ Returned
    /\ Len(rec.reasons) = 3
    /\ "vision_place_size_minimum" \in Range(rec.reasons)

====
